---- MODULE Spec2Model ----
(***************************************************************************)
(* Model of start-interactive-work-session.py: the reservation window      *)
(* computation (end_of_reservation, oar_walltime), the cluster selection   *)
(* (get_usable_nodes, select_cluster_first_fit), the job polling loops     *)
(* (wait_for_job_to_start, wait_for_setup_to_finish) and main.             *)
(*                                                                         *)
(* A datetime is a number of ticks since 00:00:00 of day 0, a timedelta a  *)
(* (possibly negative) number of ticks.  TicksPerSec ticks make a second,  *)
(* so that instants between two whole seconds (datetime's microseconds)    *)
(* exist in the model.  A Python str is a sequence of one-character        *)
(* strings.                                                                *)
(***************************************************************************)
EXTENDS Integers, Sequences, FiniteSets, TLC

\* ------------------------------------------------------------------ bounds
\* resolution of the clock below one second
TicksPerSec == 2
\* calendar days 0..MaxDay a start time is drawn from
MaxDay == 1
\* longest preference list given to select_cluster_first_fit
MaxClusters == 2
\* most reservations pending on one node
MaxReservations == 2
\* most status fetches of one polling loop
MaxPolls == 4

\* ------------------------------------------------------------- time basics
TicksPerMinute == 60 * TicksPerSec
TicksPerHour == 3600 * TicksPerSec
TicksPerDay == 24 * TicksPerHour

\* datetime(day, h, m, s) with microsecond = 0
DateTime(day, h, m, s) == day * TicksPerDay + h * TicksPerHour + m * TicksPerMinute + s * TicksPerSec

\* dt.hour
Hour(dt) == (dt % TicksPerDay) \div TicksPerHour

\* the calendar day of dt
DayOf(dt) == dt \div TicksPerDay

\* dt.replace(hour=h, minute=0, second=0, microsecond=0)
\* faulty variant: replace(hour=h) alone, minute and second kept
MutReplaceHour(dt, h) == dt - Hour(dt) * TicksPerHour + h * TicksPerHour
ReplaceHour(dt, h) == DayOf(dt) * TicksPerDay + h * TicksPerHour

\* timedelta(minutes=5), the default of delta_before_end
DefaultDeltaBeforeEnd == 5 * TicksPerMinute

\* int(delta.total_seconds()): int() truncates towards zero
IntTotalSeconds(delta) ==
    IF delta >= 0 THEN delta \div TicksPerSec ELSE 0 - ((0 - delta) \div TicksPerSec)

\* delta_before_end.total_seconds() < 0
\* faulty variant: delta_before_end.seconds < 0, which never holds
MutDeltaIsNegative(delta) == FALSE
DeltaIsNegative(delta) == delta < 0

\* ------------------------------------------------------ end_of_reservation
Ok(v) == [kind |-> "ok", value |-> v]
Raise(e) == [kind |-> e]
Pending == [kind |-> "pending"]

\* target < start_dt
\* faulty variants: target <= start_dt, and the test left out
MutTooClose(target, start) == target <= start
MutNeverTooClose(target, start) == FALSE
TooClose(target, start) == target < start

\* the day/night boundary the reservation must end before (lines 35-43)
\* faulty variant: overnight_delta forgotten
MutTargetClose(start) ==
    IF Hour(start) >= 9 /\ Hour(start) < 19
    THEN ReplaceHour(start, 19)
    ELSE ReplaceHour(start, 9)
TargetClose(start) ==
    LET hour == Hour(start)
        target_hour == IF hour >= 9 /\ hour < 19 THEN 19 ELSE 9
        overnight_delta == IF hour >= 9 /\ hour < 19 THEN 0
                           ELSE IF hour < 9 THEN 0
                           ELSE TicksPerDay
    IN  ReplaceHour(start, target_hour) + overnight_delta

end_of_reservation(start, delta) ==
    LET target == TargetClose(start)
    IN  IF DeltaIsNegative(delta) THEN Raise("ValueError")
        ELSE IF TooClose(target - delta, start) THEN Raise("RuntimeError")
        ELSE Ok(target - delta)

\* ------------------------------------------------------------ oar_walltime
DigitChars == <<"0", "1", "2", "3", "4", "5", "6", "7", "8", "9">>

RECURSIVE Decimal(_)
\* str(n) for n >= 0
Decimal(n) ==
    IF n < 10 THEN <<DigitChars[n + 1]>>
    ELSE Decimal(n \div 10) \o <<DigitChars[(n % 10) + 1]>>

\* f"{n:02d}" for n >= 0: at least two digits, zero-padded
Format02d(n) == IF n < 10 THEN <<"0">> \o Decimal(n) ELSE Decimal(n)

\* delta_seconds <= 0
\* faulty variant: delta_seconds < 0
MutNotPositive(delta_seconds) == delta_seconds < 0
NotPositive(delta_seconds) == delta_seconds <= 0

\* lines 64-70: the decomposition and the formatting
\* faulty variant: the minutes taken from all the seconds, not from the rest
MutRenderSeconds(delta_seconds) ==
    LET hours == delta_seconds \div 3600
        minutes == delta_seconds \div 60
        seconds == delta_seconds % 60
    IN  Format02d(hours) \o <<":">> \o Format02d(minutes) \o <<":">> \o Format02d(seconds)
RenderSeconds(delta_seconds) ==
    LET hours == delta_seconds \div 3600
        rest == delta_seconds % 3600
        minutes == rest \div 60
        seconds == rest % 60
    IN  Format02d(hours) \o <<":">> \o Format02d(minutes) \o <<":">> \o Format02d(seconds)

oar_walltime(start, target) ==
    LET delta == target - start
        delta_seconds == IntTotalSeconds(delta)
    IN  IF NotPositive(delta_seconds) THEN Raise("ValueError")
        ELSE Ok(RenderSeconds(delta_seconds))

\* -------------------------------------------------------- get_usable_nodes
\* datetime.fromtimestamp(ts): ts counts whole seconds
FromTimestamp(ts) == ts * TicksPerSec

\* min([int(r['scheduled_at']) for r in node['reservations']]); scheduled_at
\* is an integer of the JSON response, which int() leaves as it is
\* faulty variant: the first reservation of the list taken for the earliest
MutFirstReservationStart(reservations) == reservations[1].scheduled_at
FirstReservationStart(reservations) ==
    LET starts == {reservations[i].scheduled_at : i \in 1..Len(reservations)}
    IN  CHOOSE m \in starts : \A t \in starts : m <= t

\* node['soft'] != 'free'
\* faulty variant: the soft state not looked at
MutNotFree(node) == FALSE
NotFree(node) == node.soft # "free"

node_usable(node, target) ==
    IF NotFree(node) THEN FALSE
    ELSE IF Len(node.reservations) > 0
         THEN IF FromTimestamp(FirstReservationStart(node.reservations)) < target
              THEN FALSE
              ELSE TRUE
         ELSE TRUE

\* lines 159-171: the nodes of a 2xx response that are usable
get_usable_nodes(response, target) ==
    LET nodes == response.nodes
        names == {name \in DOMAIN nodes : node_usable(nodes[name], target)}
    IN  [name \in names |-> nodes[name]]

\* len(nodes) > 0
\* faulty variant: len(nodes) >= 0
MutHasNodes(nodes) == TRUE
HasNodes(nodes) == Cardinality(DOMAIN nodes) > 0

\* [x[0] for x in preferred_clusters]
\* faulty variant: the names in reverse order
MutClusterNames(clusters) == [i \in 1..Len(clusters) |-> clusters[Len(clusters) + 1 - i][1]]
ClusterNames(clusters) == [i \in 1..Len(clusters) |-> clusters[i][1]]

\* ---------------------------------------------------- wait_for_job_to_start
UpperLetters ==
    <<"A", "B", "C", "D", "E", "F", "G", "H", "I", "J", "K", "L", "M", "N", "O", "P", "Q", "R", "S", "T", "U", "V", "W", "X", "Y", "Z">>
LowerLetters ==
    <<"a", "b", "c", "d", "e", "f", "g", "h", "i", "j", "k", "l", "m", "n", "o", "p", "q", "r", "s", "t", "u", "v", "w", "x", "y", "z">>

\* str.lower(), character by character
LowerChar(ch) ==
    IF \E k \in 1..26 : UpperLetters[k] = ch
    THEN LowerLetters[CHOOSE k \in 1..26 : UpperLetters[k] = ch]
    ELSE ch
\* faulty variant: the state compared as spelled
MutLower(str) == str
Lower(str) == [i \in 1..Len(str) |-> LowerChar(str[i])]

\* job_state not in ['waiting', 'launching']
\* faulty variant: launching forgotten
MutHasStarted(job_state) == job_state # <<"w", "a", "i", "t", "i", "n", "g">>
HasStarted(job_state) ==
    job_state \notin {<<"w", "a", "i", "t", "i", "n", "g">>,
                      <<"l", "a", "u", "n", "c", "h", "i", "n", "g">>}

\* ------------------------------------------------- wait_for_setup_to_finish
\* 'Setup has run successfully'
SuccessSentinel ==
    <<"S", "e", "t", "u", "p", " ", "h", "a", "s", " ", "r", "u", "n",
      " ", "s", "u", "c", "c", "e", "s", "s", "f", "u", "l", "l", "y">>
\* 'Setup has run UNsuccessfully'
FailureSentinel ==
    <<"S", "e", "t", "u", "p", " ", "h", "a", "s", " ", "r", "u", "n",
      " ", "U", "N", "s", "u", "c", "c", "e", "s", "s", "f", "u", "l",
      "l", "y">>

\* needle in text
\* faulty variant: text.startswith(needle)
MutContains(text, needle) ==
    Len(text) >= Len(needle) /\ SubSeq(text, 1, Len(needle)) = needle
Contains(text, needle) ==
    \E i \in 0..(Len(text) - Len(needle)) : SubSeq(text, i + 1, i + Len(needle)) = needle

\* lines 227-232: what the text read from the log decides
\* faulty variant: the failure sentinel looked for first
MutLogOutcome(text) ==
    IF Contains(text, FailureSentinel) THEN "failed"
    ELSE IF Contains(text, SuccessSentinel) THEN "succeeded"
    ELSE "ongoing"
LogOutcome(text) ==
    IF Contains(text, SuccessSentinel) THEN "succeeded"
    ELSE IF Contains(text, FailureSentinel) THEN "failed"
    ELSE "ongoing"

\* job_state != 'running'
\* faulty variant: only the states of a finished job abort the wait
MutNotRunning(job_state) ==
    job_state \in {<<"e", "r", "r", "o", "r">>,
                   <<"t", "e", "r", "m", "i", "n", "a", "t", "e", "d">>}
NotRunning(job_state) == job_state # <<"r", "u", "n", "n", "i", "n", "g">>

\* ------------------------------------------------------------------- state
VARIABLES
    start_dt,            \* the start_dt argument
    delta_before_end,    \* the delta_before_end argument of end_of_reservation
    target_dt,           \* the target_dt argument of oar_walltime
    window,              \* outcome of end_of_reservation(start_dt, delta_before_end)
    window_walltime,     \* outcome of oar_walltime(start_dt, window.value)
    walltime,            \* outcome of oar_walltime(start_dt, target_dt)
    preferred_clusters,  \* the list of (cluster, site) given to select_cluster_first_fit
    sel_index,           \* position of the for loop of select_cluster_first_fit
    status_response,     \* the last response of do_g5k_cluster_status_request
    usable_nodes,        \* outcome of the last call of get_usable_nodes
    usable_counts,       \* len(nodes) of every iteration made so far
    selected,            \* outcome of select_cluster_first_fit
    sleep_duration,      \* the sleep_duration argument of wait_for_job_to_start
    wait_pc,             \* position in wait_for_job_to_start
    job_info,            \* info, the last response of get_job_info
    polls,               \* calls of get_job_info made so far
    slept,               \* seconds spent in time.sleep so far
    wait_result,         \* outcome of wait_for_job_to_start
    remote_state,        \* the state of the job at the scheduler
    log_stdout,          \* the file {log_prefix}.stdout
    job_current_stdout,  \* the text read from the log at the last poll
    setup_pc,            \* position in wait_for_setup_to_finish
    setup_info,          \* info, the last response of get_job_info there
    setup_reads,         \* reads of the log made so far
    setup_fetches,       \* calls of get_job_info made there so far
    setup_result,        \* outcome of wait_for_setup_to_finish
    args,                \* the flags of the command line
    main_pc,             \* position in main
    main_result,         \* how the run ended
    now,                 \* the last reading of datetime.now()
    log_stderr,          \* whether the file {log_prefix}.stderr exists
    removed,             \* the files os.remove has removed
    response_dict,       \* outcome of reserve_job
    subscript_removal,   \* outcome of the os.remove of line 290
    requests             \* the remote requests issued so far, in order

windowVars == <<start_dt, delta_before_end, window, window_walltime, walltime>>
selectVars == <<preferred_clusters, sel_index, status_response, usable_nodes,
                usable_counts, selected>>
waitVars == <<sleep_duration, wait_pc, job_info, polls, slept, wait_result>>
setupVars == <<remote_state, log_stdout, job_current_stdout, setup_pc, setup_info,
               setup_reads, setup_fetches, setup_result>>
mainVars == <<args, main_pc, main_result, now, log_stderr, removed, response_dict,
              subscript_removal, requests>>
vars == <<windowVars, target_dt, selectVars, waitVars, setupVars, mainVars>>

\* no request made yet
NoResponse == [ok |-> FALSE, status |-> 0]

\* no call of wait_for_job_to_start is under way
WaitIdle ==
    /\ sleep_duration = 5
    /\ wait_pc = "idle"
    /\ job_info = NoResponse
    /\ polls = 0
    /\ slept = 0
    /\ wait_result = Pending

\* a file that does not exist, and a file holding text
NoFile == [exists |-> FALSE]
File(text) == [exists |-> TRUE, text |-> text]

\* no call of wait_for_setup_to_finish is under way, and no job yet
SetupIdle ==
    /\ remote_state = <<>>
    /\ log_stdout = NoFile
    /\ job_current_stdout = <<>>
    /\ setup_pc = "idle"
    /\ setup_info = NoResponse
    /\ setup_reads = 0
    /\ setup_fetches = 0
    /\ setup_result = Pending

\* the flags of parser.parse_args()
Flags ==
    [clear_log_files : BOOLEAN, clear_subscript : BOOLEAN,
     wait_job_running : BOOLEAN, wait_job_setup_finished : BOOLEAN]

\* main is not running
MainIdle ==
    /\ args = [clear_log_files |-> FALSE, clear_subscript |-> FALSE,
               wait_job_running |-> FALSE, wait_job_setup_finished |-> FALSE]
    /\ main_pc = "idle"
    /\ main_result = Pending
    /\ now = 0
    /\ log_stderr = FALSE
    /\ removed = {}
    /\ response_dict = Pending
    /\ subscript_removal = "none"
    /\ requests = <<>>

\* no call of select_cluster_first_fit is under way
SelectIdle ==
    /\ preferred_clusters = <<>>
    /\ sel_index = 1
    /\ status_response = NoResponse
    /\ usable_nodes = Pending
    /\ usable_counts = <<>>
    /\ selected = Pending

\* no call of end_of_reservation or oar_walltime is under way
WindowIdle ==
    /\ start_dt = 0
    /\ delta_before_end = DefaultDeltaBeforeEnd
    /\ window = Pending
    /\ window_walltime = Pending
    /\ walltime = Pending

\* ------------------------------------------------- inputs of the functions
\* minute, second pairs around the margin and the ends of an hour
MinuteSeconds == {<<0, 0>>, <<30, 0>>, <<54, 59>>, <<55, 0>>, <<55, 1>>, <<59, 59>>}

Starts ==
    {DateTime(d, h, ms[1], ms[2]) + sub :
        d \in 0..MaxDay, h \in 0..23, ms \in MinuteSeconds, sub \in 0..(TicksPerSec - 1)}

Margins ==
    {0 - DefaultDeltaBeforeEnd, 0 - TicksPerSec, 0 - 1, 0, 1, DefaultDeltaBeforeEnd,
     10 * TicksPerHour, 25 * TicksPerHour}

\* target_dt - start_dt
Offsets ==
    {0 - TicksPerHour, 0 - TicksPerSec, 0 - 1, 0, 1, TicksPerSec, TicksPerSec + 1,
     59 * TicksPerSec, TicksPerMinute, TicksPerHour - TicksPerSec, TicksPerHour,
     4 * TicksPerHour + 55 * TicksPerMinute, 9 * TicksPerHour + 55 * TicksPerMinute,
     13 * TicksPerHour + 55 * TicksPerMinute,
     25 * TicksPerHour + TicksPerMinute + TicksPerSec + 1,
     100 * TicksPerHour + 59 * TicksPerMinute + 59 * TicksPerSec}

InitWindow ==
    /\ start_dt \in Starts
    /\ delta_before_end \in Margins
    /\ target_dt \in {start_dt + off : off \in Offsets}
    /\ window = Pending
    /\ window_walltime = Pending
    /\ walltime = Pending
    /\ SelectIdle
    /\ WaitIdle
    /\ SetupIdle
    /\ MainIdle

\* edt = end_of_reservation(dt, delta_before_end)
CallEndOfReservation ==
    /\ window = Pending
    /\ walltime = Pending
    /\ window' = end_of_reservation(start_dt, delta_before_end)
    /\ UNCHANGED <<start_dt, delta_before_end, target_dt, window_walltime, walltime, selectVars, waitVars>>

\* walltime_str = oar_walltime(start_dt, end_dt), lines 28-30
CallWalltimeOfWindow ==
    /\ window.kind = "ok"
    /\ window_walltime = Pending
    /\ window_walltime' = oar_walltime(start_dt, window.value)
    /\ UNCHANGED <<start_dt, delta_before_end, target_dt, window, walltime, selectVars, waitVars>>

\* wt = oar_walltime(dt, target)
CallOarWalltime ==
    /\ window = Pending
    /\ walltime = Pending
    /\ walltime' = oar_walltime(start_dt, target_dt)
    /\ UNCHANGED <<start_dt, delta_before_end, target_dt, window, window_walltime, selectVars, waitVars>>

NextWindow ==
    \/ CallEndOfReservation /\ UNCHANGED <<setupVars, mainVars>>
    \/ CallWalltimeOfWindow /\ UNCHANGED <<setupVars, mainVars>>
    \/ CallOarWalltime /\ UNCHANGED <<setupVars, mainVars>>

SpecWindow == InitWindow /\ [][NextWindow]_vars

\* ------------------------------------------------- claims on the window
\* the instants 09:00:00 and 19:00:00 of the days a window can end in
Boundaries ==
    {DateTime(d, h, 0, 0) : d \in 0..(MaxDay + 2), h \in {9, 19}}

\* the first day/night boundary strictly after dt
NextBoundary(dt) ==
    CHOOSE b \in Boundaries :
        /\ b > dt
        /\ \A c \in Boundaries : c > dt => b <= c

\* dt lies in the diurnal block [09:00, 19:00) of its day
Diurnal(dt) ==
    \E d \in 0..MaxDay : DateTime(d, 9, 0, 0) <= dt /\ dt < DateTime(d, 19, 0, 0)

\* 18:55:00 of the day of dt
SameDay1855(dt) == DateTime(DayOf(dt), 18, 55, 0)

\* the next occurrence of 09:00:00 after a nocturnal dt
Next0900(dt) ==
    IF dt < DateTime(DayOf(dt), 9, 0, 0)
    THEN DateTime(DayOf(dt), 9, 0, 0)
    ELSE DateTime(DayOf(dt) + 1, 9, 0, 0)

DiurnalDefaultCall ==
    /\ window # Pending
    /\ Diurnal(start_dt)
    /\ delta_before_end = DefaultDeltaBeforeEnd

\* C1 as stated: every start with hour in [9,19) and the 5-minute margin gives
\* 18:55:00 of the same day.
C1_AsStated == DiurnalDefaultCall => window = Ok(SameDay1855(start_dt))

\* C1 amended: with the 5-minute margin a start in [09:00:00, 18:55:00] gives
\* 18:55:00 of the same day, and a start after 18:55:00 and before 19:00:00
\* fails with RuntimeError (BoundaryTooClose).
C1_DiurnalWindowEnd ==
    DiurnalDefaultCall =>
        IF start_dt <= SameDay1855(start_dt)
        THEN window = Ok(SameDay1855(start_dt))
        ELSE window = Raise("RuntimeError")

C1_Witness ==
    /\ DiurnalDefaultCall
    /\ start_dt = DateTime(0, 18, 55, 0)
    /\ window = Ok(DateTime(0, 18, 55, 0))

NocturnalCall ==
    /\ window # Pending
    /\ ~Diurnal(start_dt)
    /\ delta_before_end >= 0

\* C2 as stated: every nocturnal start and every non-negative margin gives the
\* next 09:00:00 minus the margin.
C2_AsStated == NocturnalCall => window = Ok(Next0900(start_dt) - delta_before_end)

\* C2 amended: a nocturnal start and a non-negative margin give the next
\* 09:00:00 minus the margin (09:00 of the same day before 09:00, of the
\* following day from 19:00 on) when that instant is not earlier than the
\* start, and RuntimeError (BoundaryTooClose) when it is.
C2_NocturnalWindowEnd ==
    NocturnalCall =>
        IF Next0900(start_dt) - delta_before_end >= start_dt
        THEN window = Ok(Next0900(start_dt) - delta_before_end)
        ELSE window = Raise("RuntimeError")

C2_Witness ==
    /\ NocturnalCall
    /\ start_dt = DateTime(0, 23, 55, 0)
    /\ delta_before_end = DefaultDeltaBeforeEnd
    /\ window = Ok(DateTime(1, 8, 55, 0))

\* C3: with a non-negative margin the call raises RuntimeError
\* (BoundaryTooClose) exactly when the target close minus the margin is
\* strictly earlier than the start and otherwise returns that instant; with
\* the 5-minute margin it returns at 18:55:00 and raises at 18:55:01.
C3_BoundaryTooClose ==
    (window # Pending /\ delta_before_end >= 0) =>
        /\ window = Raise("RuntimeError")
             <=> NextBoundary(start_dt) - delta_before_end < start_dt
        /\ window # Raise("RuntimeError")
             => window = Ok(NextBoundary(start_dt) - delta_before_end)
        /\ \A d \in 0..MaxDay :
             delta_before_end = DefaultDeltaBeforeEnd =>
                /\ start_dt = DateTime(d, 18, 55, 0) => window.kind = "ok"
                /\ start_dt = DateTime(d, 18, 55, 1) => window = Raise("RuntimeError")

C3_Witness ==
    /\ start_dt = DateTime(0, 18, 55, 1)
    /\ delta_before_end = DefaultDeltaBeforeEnd
    /\ window = Raise("RuntimeError")

\* C4: a negative margin raises ValueError (InvalidArgument) for every start:
\* no window end is returned and no RuntimeError is raised instead.
C4_NegativeMargin ==
    (window # Pending /\ delta_before_end < 0) => window = Raise("ValueError")

C4_Witness ==
    /\ start_dt = DateTime(0, 18, 59, 59) + 1
    /\ delta_before_end = 0 - 1
    /\ window = Raise("ValueError")

\* C5 as stated: a returned window end is strictly after the start.
C5_AsStated == window.kind = "ok" => window.value > start_dt

\* C5 amended: a returned window end is never earlier than the start
\* (end >= start); the zero-length window end = start is returned when the
\* start is exactly the target close minus the margin.
C5_EndNotBeforeStart ==
    window.kind = "ok" =>
        /\ window.value >= start_dt
        /\ window.value = start_dt
             <=> start_dt = NextBoundary(start_dt) - delta_before_end

C5_Witness ==
    /\ window.kind = "ok"
    /\ delta_before_end >= 0
    /\ window.value = start_dt

\* ------------------------------------------------ claims on the walltime
\* the contract of C6 on one call oar_walltime(start, target) = result
RejectsNonPositive(start, target, result) ==
    /\ target <= start => result = Raise("ValueError")
    /\ target - start >= TicksPerSec => result.kind = "ok"

\* C6: oar_walltime raises ValueError (InvalidArgument) whenever
\* target <= start, and returns a string whenever target is at least one
\* whole second after start.
C6_WalltimeDomain ==
    /\ walltime # Pending => RejectsNonPositive(start_dt, target_dt, walltime)
    /\ window_walltime # Pending
         => RejectsNonPositive(start_dt, window.value, window_walltime)

C6_Witness ==
    /\ target_dt = start_dt
    /\ walltime = Raise("ValueError")

\* reading a rendered walltime back
IsDigit(ch) == \E k \in 1..10 : DigitChars[k] = ch
DigitValue(ch) == (CHOOSE k \in 1..10 : DigitChars[k] = ch) - 1

RECURSIVE Number(_)
Number(digits) ==
    IF Len(digits) = 0 THEN 0
    ELSE 10 * Number(SubSeq(digits, 1, Len(digits) - 1)) + DigitValue(digits[Len(digits)])

Colons(str) == {i \in 1..Len(str) : str[i] = ":"}
FirstColon(str) == CHOOSE i \in Colons(str) : \A j \in Colons(str) : i <= j
LastColon(str) == CHOOSE i \in Colons(str) : \A j \in Colons(str) : i >= j
HoursField(str) == SubSeq(str, 1, FirstColon(str) - 1)
MinutesField(str) == SubSeq(str, FirstColon(str) + 1, LastColon(str) - 1)
SecondsField(str) == SubSeq(str, LastColon(str) + 1, Len(str))
AllDigits(field) == \A i \in 1..Len(field) : IsDigit(field[i])

\* str is HH:MM:SS for the duration of d whole seconds
RoundTrips(str, d) ==
    /\ Cardinality(Colons(str)) = 2
    /\ AllDigits(HoursField(str)) /\ Len(HoursField(str)) >= 2
    /\ AllDigits(MinutesField(str)) /\ Len(MinutesField(str)) = 2
    /\ AllDigits(SecondsField(str)) /\ Len(SecondsField(str)) = 2
    /\ Number(MinutesField(str)) \in 0..59
    /\ Number(SecondsField(str)) \in 0..59
    /\ 3600 * Number(HoursField(str)) + 60 * Number(MinutesField(str))
         + Number(SecondsField(str)) = d

\* C7: a returned walltime is HH:MM:SS with at least two digits of hours (not
\* clamped at 24), minutes and seconds in 0..59, and reads back as the whole
\* seconds of target - start; 9h55m gives 09:55:00, 13h55m gives 13:55:00 and
\* 4h55m gives 04:55:00.
C7_WalltimeRoundTrip ==
    /\ walltime.kind = "ok" =>
        /\ RoundTrips(walltime.value, (target_dt - start_dt) \div TicksPerSec)
        /\ target_dt - start_dt = 9 * TicksPerHour + 55 * TicksPerMinute
             => walltime.value = <<"0", "9", ":", "5", "5", ":", "0", "0">>
        /\ target_dt - start_dt = 13 * TicksPerHour + 55 * TicksPerMinute
             => walltime.value = <<"1", "3", ":", "5", "5", ":", "0", "0">>
        /\ target_dt - start_dt = 4 * TicksPerHour + 55 * TicksPerMinute
             => walltime.value = <<"0", "4", ":", "5", "5", ":", "0", "0">>
    /\ window_walltime.kind = "ok" =>
        RoundTrips(window_walltime.value, (window.value - start_dt) \div TicksPerSec)

C7_Witness ==
    /\ target_dt - start_dt = 100 * TicksPerHour + 59 * TicksPerMinute + 59 * TicksPerSec
    /\ walltime = Ok(<<"1", "0", "0", ":", "5", "9", ":", "5", "9">>)

\* ------------------------------------------------ select_cluster_first_fit
\* the clusters of my_cluster_preference
ClusterRefs == {<<"dahu", "grenoble">>, <<"gros", "nancy">>}

RECURSIVE SeqsUpTo(_, _)
\* the sequences over S of length 0..n
SeqsUpTo(S, n) ==
    IF n = 0 THEN {<<>>}
    ELSE LET shorter == SeqsUpTo(S, n - 1)
         IN  shorter \cup {Append(q, x) : q \in shorter, x \in S}

ClusterLists == SeqsUpTo(ClusterRefs, MaxClusters)

\* the end of the window the nodes are wanted until
SelectTarget == DateTime(0, 18, 55, 0)

\* scheduled_at of a reservation: one second before the target, at it, after it
ReservationStarts ==
    {(SelectTarget \div TicksPerSec) - 1, SelectTarget \div TicksPerSec,
     (SelectTarget \div TicksPerSec) + 1}

Reservations == {[scheduled_at |-> t] : t \in ReservationStarts}

Nodes ==
    [soft : {"free", "busy"}, reservations : SeqsUpTo(Reservations, MaxReservations)]

NodeNames == {"dahu-1", "dahu-2"}

\* response.ok and json.loads(response.text) with every node in nodeSet, or
\* a non-2xx response
StatusResponsesOver(nodeSet) ==
    {[ok |-> FALSE, status |-> 500]} \cup
    {[ok |-> TRUE, status |-> 200, nodes |-> nodes] :
        nodes \in UNION {[names -> nodeSet] : names \in SUBSET NodeNames}}

StatusResponses == StatusResponsesOver(Nodes)

\* the responses drawn inside the loop of select_cluster_first_fit: nodes
\* with at most one reservation
SelectStatusResponses ==
    StatusResponsesOver({node \in Nodes : Len(node.reservations) <= 1})

\* the window ends the nodes are wanted until: a whole second, and just after
UsableTargets == {SelectTarget, SelectTarget + 1}

InitUsable ==
    /\ WindowIdle
    /\ target_dt \in UsableTargets
    /\ SelectIdle
    /\ WaitIdle
    /\ SetupIdle
    /\ MainIdle

\* get_usable_nodes(site, cluster, target_dt), lines 157-171, with the request
\* of lines 147-150
GetUsableNodes ==
    /\ status_response = NoResponse
    /\ \E response \in StatusResponses :
        /\ status_response' = response
        /\ usable_nodes' = IF ~response.ok THEN Raise("HTTPError")
                           ELSE Ok(get_usable_nodes(response, target_dt))
    /\ UNCHANGED <<windowVars, target_dt, preferred_clusters, sel_index,
                   usable_counts, selected, waitVars>>

NextUsable == GetUsableNodes /\ UNCHANGED <<setupVars, mainVars>>

SpecUsable == InitUsable /\ [][NextUsable]_vars

InitSelect ==
    /\ WindowIdle
    /\ target_dt = SelectTarget
    /\ preferred_clusters \in ClusterLists
    /\ sel_index = 1
    /\ status_response = NoResponse
    /\ usable_nodes = Pending
    /\ usable_counts = <<>>
    /\ selected = Pending
    /\ WaitIdle
    /\ SetupIdle
    /\ MainIdle

\* one iteration of the for loop, lines 175-178, with the request of
\* get_usable_nodes (lines 147-150, 158)
SelectQueryCluster ==
    /\ selected = Pending
    /\ sel_index <= Len(preferred_clusters)
    /\ \E response \in SelectStatusResponses :
        /\ status_response' = response
        /\ IF ~response.ok
           THEN /\ usable_nodes' = Raise("HTTPError")
                /\ selected' = Raise("HTTPError")
                /\ UNCHANGED <<usable_counts, sel_index>>
           ELSE LET nodes == get_usable_nodes(response, target_dt)
                IN  /\ usable_nodes' = Ok(nodes)
                    /\ usable_counts' = Append(usable_counts, Cardinality(DOMAIN nodes))
                    /\ IF HasNodes(nodes)
                       THEN /\ selected' = Ok(preferred_clusters[sel_index])
                            /\ UNCHANGED sel_index
                       ELSE /\ sel_index' = sel_index + 1
                            /\ UNCHANGED selected
    /\ UNCHANGED <<windowVars, target_dt, preferred_clusters, waitVars>>

\* line 179: the list is exhausted
SelectExhausted ==
    /\ selected = Pending
    /\ sel_index > Len(preferred_clusters)
    /\ selected' = [kind |-> "RuntimeError", clusters |-> ClusterNames(preferred_clusters)]
    /\ UNCHANGED <<windowVars, target_dt, preferred_clusters, sel_index,
                   status_response, usable_nodes, usable_counts, waitVars>>

NextSelect ==
    \/ SelectQueryCluster /\ UNCHANGED <<setupVars, mainVars>>
    \/ SelectExhausted /\ UNCHANGED <<setupVars, mainVars>>

SpecSelect == InitSelect /\ [][NextSelect]_vars

\* ------------------------------------------- claims on the cluster selection
\* a reservation of the node starts strictly before dt
ReservedBefore(node, dt) ==
    \E i \in 1..Len(node.reservations) :
        node.reservations[i].scheduled_at * TicksPerSec < dt

\* C8: get_usable_nodes returns exactly the nodes of the response that are
\* free and have no reservation starting strictly before the target: a node
\* that is not free is never returned, and a free node is left out iff one of
\* its reservations starts strictly before the target.
C8_UsableNodes ==
    status_response.ok =>
        /\ usable_nodes.kind = "ok"
        /\ LET nodes == status_response.nodes
               usable == usable_nodes.value
           IN  /\ DOMAIN usable \subseteq DOMAIN nodes
               /\ \A name \in DOMAIN usable : usable[name] = nodes[name]
               /\ \A name \in DOMAIN nodes :
                    /\ nodes[name].soft # "free" => name \notin DOMAIN usable
                    /\ nodes[name].soft = "free" =>
                         (name \notin DOMAIN usable
                            <=> ReservedBefore(nodes[name], target_dt))

C8_Witness ==
    /\ status_response.ok
    /\ DOMAIN status_response.nodes = {"dahu-1", "dahu-2"}
    /\ status_response.nodes["dahu-1"].soft = "free"
    /\ Len(status_response.nodes["dahu-1"].reservations) = 2
    /\ status_response.nodes["dahu-1"].reservations[1].scheduled_at * TicksPerSec > target_dt
    /\ status_response.nodes["dahu-1"].reservations[2].scheduled_at * TicksPerSec < target_dt
    /\ status_response.nodes["dahu-2"].soft = "free"
    /\ Len(status_response.nodes["dahu-2"].reservations) = 1
    /\ status_response.nodes["dahu-2"].reservations[1].scheduled_at * TicksPerSec = target_dt
    /\ usable_nodes.kind = "ok"
    /\ DOMAIN usable_nodes.value = {"dahu-2"}

\* C9: select_cluster_first_fit returns the pair at the smallest index of the
\* list whose query gave at least one usable node, every pair before it having
\* given none; it raises RuntimeError (NoClusterAvailable) with the cluster
\* names of the whole list, in list order, exactly when every pair of the list
\* (none, for the empty list) was queried and gave no usable node.
C9_FirstFit ==
    /\ \A j \in 1..(Len(usable_counts) - 1) : usable_counts[j] = 0
    /\ selected.kind = "ok" =>
         /\ Len(usable_counts) >= 1
         /\ selected.value = preferred_clusters[Len(usable_counts)]
         /\ usable_counts[Len(usable_counts)] >= 1
    /\ selected.kind = "RuntimeError" =>
         /\ Len(usable_counts) = Len(preferred_clusters)
         /\ \A j \in 1..Len(usable_counts) : usable_counts[j] = 0
         /\ Len(selected.clusters) = Len(preferred_clusters)
         /\ \A j \in 1..Len(preferred_clusters) :
              selected.clusters[j] = preferred_clusters[j][1]
    /\ (/\ Len(usable_counts) = Len(preferred_clusters)
        /\ \A j \in 1..Len(usable_counts) : usable_counts[j] = 0
        /\ selected # Pending)
         => selected.kind = "RuntimeError"
    /\ (Len(usable_counts) >= 1 /\ usable_counts[Len(usable_counts)] >= 1)
         => selected.kind = "ok"

C9_Witness ==
    /\ preferred_clusters = << <<"dahu", "grenoble">>, <<"gros", "nancy">> >>
    /\ usable_counts = <<0, 1>>
    /\ selected = Ok(<<"gros", "nancy">>)

\* --------------------------------------------------- wait_for_job_to_start
\* info['state'] as the service may spell it
JobStates ==
    {<<"w", "a", "i", "t", "i", "n", "g">>,
     <<"W", "a", "i", "t", "i", "n", "g">>,
     <<"W", "A", "I", "T", "I", "N", "G">>,
     <<"l", "a", "u", "n", "c", "h", "i", "n", "g">>,
     <<"L", "a", "u", "n", "c", "h", "i", "n", "g">>,
     <<"t", "o", "L", "a", "u", "n", "c", "h">>,
     <<"r", "u", "n", "n", "i", "n", "g">>,
     <<"R", "u", "n", "n", "i", "n", "g">>,
     <<"e", "r", "r", "o", "r">>,
     <<"t", "e", "r", "m", "i", "n", "a", "t", "e", "d">>,
     <<"h", "o", "l", "d">>}

\* response.ok and json.loads(response.text), or a non-2xx response
JobResponses ==
    {[ok |-> FALSE, status |-> 500]} \cup
    {[ok |-> TRUE, status |-> 200, state |-> st] : st \in JobStates}

\* the poll intervals: the default of wait_for_job_to_start, and another
SleepDurations == {5, 10}

InitWait ==
    /\ WindowIdle
    /\ target_dt = SelectTarget
    /\ SelectIdle
    /\ sleep_duration \in SleepDurations
    /\ wait_pc = "fetch"
    /\ job_info = NoResponse
    /\ polls = 0
    /\ slept = 0
    /\ wait_result = Pending
    /\ SetupIdle
    /\ MainIdle

\* lines 213-218: get_job_info (lines 204-208) and the test of the state
\* faulty variant: a failed fetch slept over and made again
MutWaitPoll ==
    /\ wait_pc = "fetch"
    /\ polls < MaxPolls
    /\ polls' = polls + 1
    /\ \E response \in JobResponses :
        /\ job_info' = response
        /\ IF ~response.ok
           THEN /\ wait_pc' = "sleep"
                /\ UNCHANGED wait_result
           ELSE LET job_state == Lower(response.state)
                IN  IF HasStarted(job_state)
                    THEN /\ wait_pc' = "returned"
                         /\ wait_result' = Ok(response)
                    ELSE /\ wait_pc' = "sleep"
                         /\ UNCHANGED wait_result
    /\ UNCHANGED <<windowVars, target_dt, selectVars, sleep_duration, slept>>
WaitPoll ==
    /\ wait_pc = "fetch"
    /\ polls < MaxPolls
    /\ polls' = polls + 1
    /\ \E response \in JobResponses :
        /\ job_info' = response
        /\ IF ~response.ok
           THEN /\ wait_pc' = "raised"
                /\ wait_result' = Raise("HTTPError")
           ELSE LET job_state == Lower(response.state)
                IN  IF HasStarted(job_state)
                    THEN /\ wait_pc' = "returned"
                         /\ wait_result' = Ok(response)
                    ELSE /\ wait_pc' = "sleep"
                         /\ UNCHANGED wait_result
    /\ UNCHANGED <<windowVars, target_dt, selectVars, sleep_duration, slept>>

\* line 220: time.sleep(sleep_duration), then the loop again
WaitSleep ==
    /\ wait_pc = "sleep"
    /\ slept' = slept + sleep_duration
    /\ wait_pc' = "fetch"
    /\ UNCHANGED <<windowVars, target_dt, selectVars, sleep_duration, job_info,
                   polls, wait_result>>

NextWait ==
    \/ WaitPoll /\ UNCHANGED <<setupVars, mainVars>>
    \/ WaitSleep /\ UNCHANGED <<setupVars, mainVars>>

SpecWait == InitWait /\ [][NextWait]_vars

\* -------------------------------------------- claims on the running-wait
\* a and b are the same string but for the case of the letters
SameIgnoringCase(a, b) ==
    /\ Len(a) = Len(b)
    /\ \A i \in 1..Len(a) :
         \/ a[i] = b[i]
         \/ \E k \in 1..26 : {a[i], b[i]} = {UpperLetters[k], LowerLetters[k]}

\* the state is waiting or launching, in any letter case
WaitingOrLaunching(state) ==
    \/ SameIgnoringCase(state, <<"w", "a", "i", "t", "i", "n", "g">>)
    \/ SameIgnoringCase(state, <<"l", "a", "u", "n", "c", "h", "i", "n", "g">>)

\* what holds where the loop stands
C10_Positions ==
    /\ wait_pc = "returned" =>
         /\ job_info.ok
         /\ ~WaitingOrLaunching(job_info.state)
         /\ wait_result = Ok(job_info)
    /\ wait_pc = "sleep" =>
         /\ job_info.ok
         /\ WaitingOrLaunching(job_info.state)
         /\ wait_result = Pending
    /\ wait_result.kind = "ok" => wait_pc = "returned"
    /\ slept = sleep_duration * (IF wait_pc = "fetch" THEN polls ELSE polls - 1)

\* what each step of the loop does
C10_Steps ==
    /\ (polls' = polls + 1 /\ job_info'.ok /\ WaitingOrLaunching(job_info'.state))
         => (wait_pc' = "sleep" /\ wait_result' = Pending /\ slept' = slept)
    /\ (polls' = polls + 1 /\ job_info'.ok /\ ~WaitingOrLaunching(job_info'.state))
         => (wait_pc' = "returned" /\ wait_result' = Ok(job_info'))
    /\ wait_pc = "sleep"
         => (wait_pc' = "fetch" /\ slept' = slept + sleep_duration /\ polls' = polls)

\* C10: wait_for_job_to_start returns only at a poll whose state, compared
\* without regard to case, is neither waiting nor launching, and returns the
\* info fetched at that poll; after a poll whose state is waiting or launching
\* it does not return: it sleeps sleep_duration seconds and fetches again.
C10_ReturnsOnlyWhenStarted == []C10_Positions /\ [][C10_Steps]_vars

C10_Witness ==
    /\ polls = 3
    /\ slept = 2 * sleep_duration
    /\ wait_pc = "returned"
    /\ wait_result = Ok([ok |-> TRUE, status |-> 200, state |-> <<"R", "u", "n", "n", "i", "n", "g">>])

\* ------------------------------------------------ wait_for_setup_to_finish
\* texts of the log, whole lines and lines being written
LogTexts ==
    {<<>>,
     <<"S", "e", "t", "u", "p", " ", "h", "a", "s", " ", "r", "u",
       "n", " ">>,
     <<"S", "e", "t", "u", "p", " ", "h", "a", "s", " ", "r", "u",
       "n", " ", "s", "u", "c", "c", "e", "s", "s", "f", "u", "l",
       "l", "y">>,
     <<"S", "e", "t", "u", "p", " ", "h", "a", "s", " ", "r", "u",
       "n", " ", "s", "u", "c", "c", "e", "s", "s", "f", "u", "l",
       "l", "y", "\n">>,
     <<"S", "e", "t", "u", "p", " ", "h", "a", "s", " ", "r", "u",
       "n", " ", "U", "N">>,
     <<"S", "e", "t", "u", "p", " ", "h", "a", "s", " ", "r", "u",
       "n", " ", "U", "N", "s", "u", "c", "c", "e", "s", "s", "f",
       "u", "l", "l", "y">>,
     <<"S", "e", "t", "u", "p", " ", "h", "a", "s", " ", "r", "u",
       "n", " ", "U", "N", "s", "u", "c", "c", "e", "s", "s", "f",
       "u", "l", "l", "y", "\n", "S", "e", "t", "u", "p", " ", "h",
       "a", "s", " ", "r", "u", "n", " ", "s", "u", "c", "c", "e",
       "s", "s", "f", "u", "l", "l", "y">>,
     <<"+", " ", "s", "e", "t", "u", "p", "\n", "S", "e", "t", "u",
       "p", " ", "h", "a", "s", " ", "r", "u", "n", " ", "s", "u",
       "c", "c", "e", "s", "s", "f", "u", "l", "l", "y", "\n">>,
     <<"+", " ", "s", "e", "t", "u", "p", "\n", "S", "e", "t", "u",
       "p", " ", "h", "a", "s", " ", "r", "u", "n", " ", "U", "N",
       "s", "u", "c", "c", "e", "s", "s", "f", "u", "l", "l", "y",
       "\n">>}

\* the job appends to its log: text grows into longer
Extends(longer, text) ==
    Len(longer) > Len(text) /\ SubSeq(longer, 1, Len(text)) = text

LogFiles == {NoFile} \cup {File(text) : text \in LogTexts}

\* the states of a job that has started, or has ended
StartedStates ==
    {st \in JobStates : HasStarted(Lower(st))}

InitSetup ==
    /\ WindowIdle
    /\ target_dt = SelectTarget
    /\ SelectIdle
    /\ WaitIdle
    /\ remote_state \in StartedStates
    /\ log_stdout \in LogFiles
    /\ job_current_stdout = <<>>
    /\ setup_pc = "read"
    /\ setup_info = NoResponse
    /\ setup_reads = 0
    /\ setup_fetches = 0
    /\ setup_result = Pending
    /\ MainIdle

\* lines 225-239: one poll, the read of the log and, without a sentinel in
\* it, get_job_info (lines 204-208) and the test of the state
SetupPoll ==
    /\ setup_pc = "read"
    /\ setup_reads < MaxPolls
    /\ setup_reads' = setup_reads + 1
    /\ IF ~log_stdout.exists
       THEN /\ setup_pc' = "raised"
            /\ setup_result' = Raise("FileNotFoundError")
            /\ UNCHANGED <<job_current_stdout, setup_info, setup_fetches>>
       ELSE /\ job_current_stdout' = log_stdout.text
            /\ IF LogOutcome(log_stdout.text) = "succeeded"
               THEN /\ setup_pc' = "returned"
                    /\ setup_result' = Ok(TRUE)
                    /\ UNCHANGED <<setup_info, setup_fetches>>
               ELSE IF LogOutcome(log_stdout.text) = "failed"
               THEN /\ setup_pc' = "returned"
                    /\ setup_result' = Ok(FALSE)
                    /\ UNCHANGED <<setup_info, setup_fetches>>
               ELSE /\ setup_fetches' = setup_fetches + 1
                    /\ \E response \in JobResponses :
                        /\ setup_info' = response
                        /\ IF ~response.ok
                           THEN /\ setup_pc' = "raised"
                                /\ setup_result' = Raise("HTTPError")
                           ELSE IF NotRunning(Lower(response.state))
                           THEN /\ setup_pc' = "raised"
                                /\ setup_result' = Raise("RuntimeError")
                           ELSE /\ setup_pc' = "sleep"
                                /\ UNCHANGED setup_result
    /\ UNCHANGED <<windowVars, target_dt, selectVars, waitVars, remote_state, log_stdout>>

\* line 242: time.sleep(sleep_duration), then the loop again
SetupSleep ==
    /\ setup_pc = "sleep"
    /\ setup_pc' = "read"
    /\ UNCHANGED <<windowVars, target_dt, selectVars, waitVars, remote_state, log_stdout,
                   job_current_stdout, setup_info, setup_reads, setup_fetches,
                   setup_result>>

\* the job at the scheduler: it writes to its log
JobWritesLog ==
    /\ log_stdout' \in
         {File(text) : text \in {t \in LogTexts :
                                   ~log_stdout.exists \/ Extends(t, log_stdout.text)}}
    /\ UNCHANGED <<windowVars, target_dt, selectVars, waitVars, remote_state,
                   job_current_stdout, setup_pc, setup_info, setup_reads,
                   setup_fetches, setup_result>>

\* the job at the scheduler: it changes state
JobChangesState ==
    /\ remote_state' \in StartedStates \ {remote_state}
    /\ UNCHANGED <<windowVars, target_dt, selectVars, waitVars, log_stdout,
                   job_current_stdout, setup_pc, setup_info, setup_reads,
                   setup_fetches, setup_result>>

\* get_job_info answers with the state the job has
AnswersRemoteState(info) == info.ok => info.state = remote_state

\* the polls of a wait that is under way, with the job it waits for
SetupPollOfJob ==
    /\ SetupPoll
    /\ setup_fetches' # setup_fetches => AnswersRemoteState(setup_info')
    /\ UNCHANGED mainVars

SetupSleeps == SetupSleep /\ UNCHANGED mainVars

SetupJobWrites ==
    /\ setup_pc \in {"read", "sleep"}
    /\ JobWritesLog
    /\ UNCHANGED mainVars

SetupJobChanges ==
    /\ setup_pc \in {"read", "sleep"}
    /\ JobChangesState
    /\ UNCHANGED mainVars

NextSetup == SetupPollOfJob \/ SetupSleeps \/ SetupJobWrites \/ SetupJobChanges

SpecSetup == InitSetup /\ [][NextSetup]_vars

\* ------------------------------------------------------------- claims C11, C18
\* needle occurs in text as a run of consecutive characters
Occurs(needle, text) ==
    \E i \in 1..Len(text) : \E j \in i..Len(text) : SubSeq(text, i, j) = needle

\* the state of a job that runs
Running == <<"r", "u", "n", "n", "i", "n", "g">>

NoSentinelIn(text) ==
    ~Occurs(SuccessSentinel, text) /\ ~Occurs(FailureSentinel, text)

C11_Endings ==
    /\ setup_result = Ok(TRUE) => Occurs(SuccessSentinel, job_current_stdout)
    /\ setup_result = Ok(FALSE) => Occurs(FailureSentinel, job_current_stdout)
    /\ setup_result = Raise("RuntimeError") =>
          /\ NoSentinelIn(job_current_stdout)
          /\ setup_info.ok
          /\ ~SameIgnoringCase(setup_info.state, Running)
    /\ setup_pc = "returned" => setup_result \in {Ok(TRUE), Ok(FALSE)}
    /\ setup_pc \in {"read", "sleep"} => setup_result = Pending

\* the step that ends the wait is one poll: it reads the log then, and what
\* it reports a job that is no longer running on is fetched then
C11_SinglePoll ==
    setup_result' # setup_result =>
        /\ setup_reads' = setup_reads + 1
        /\ log_stdout.exists => job_current_stdout' = log_stdout.text
        /\ setup_result' = Raise("RuntimeError") =>
              /\ setup_fetches' = setup_fetches + 1
              /\ setup_info'.state = remote_state

\* C11: wait_for_setup_to_finish ends at a single poll. It returns True only
\* if the log read at that poll holds the success sentinel, False only if it
\* holds the failure sentinel, and raises RuntimeError only if it holds neither
\* and the state fetched at that poll is not running under any letter case; a
\* job that left running with no sentinel in the log is never reported as a
\* failed setup, and the wait never returns while the setup is ongoing.
C11_SetupWaitEndings == []C11_Endings /\ [][C11_SinglePoll]_vars

\* a later poll finds a log with lines but no sentinel, and the job ended
C11_Witness ==
    /\ setup_result = Raise("RuntimeError")
    /\ setup_reads > 1
    /\ Len(job_current_stdout) > 0
    /\ setup_info.state = <<"t", "e", "r", "m", "i", "n", "a", "t", "e", "d">>

C18_LogFirst ==
    /\ setup_fetches' # setup_fetches =>
          /\ setup_reads' = setup_reads + 1
          /\ log_stdout.exists
          /\ NoSentinelIn(log_stdout.text)
    /\ (/\ setup_reads' = setup_reads + 1
        /\ log_stdout.exists
        /\ ~NoSentinelIn(log_stdout.text)) =>
          /\ setup_fetches' = setup_fetches
          /\ setup_info' = setup_info
          /\ setup_pc' = "returned"
          /\ setup_result' = Ok(Occurs(SuccessSentinel, log_stdout.text))

\* C18: at each poll the log is read before the job is asked about: a fetch
\* of the job's state happens only at a poll whose log holds no sentinel. A
\* poll whose log holds a sentinel returns at once with no fetch, whatever
\* state the job is in, and returns True whenever the success sentinel is
\* there, the failure sentinel being there as well or not.
C18_LogBeforeStatus == [][C18_LogFirst]_vars

\* both sentinels in the log, the job no longer running, no fetch made
C18_Witness ==
    /\ setup_result = Ok(TRUE)
    /\ Occurs(FailureSentinel, job_current_stdout)
    /\ NotRunning(Lower(remote_state))
    /\ setup_fetches = 0

\* -------------------------------------------------------------------- main
\* the instants of line 268: midday, and around the last instant a window
\* can still start
MainStarts ==
    {DateTime(0, 12, 0, 0), DateTime(0, 18, 54, 59), DateTime(0, 18, 55, 0),
     DateTime(0, 18, 55, 0) + 1}

\* the time from line 268 to the datetime.now() of line 182
Elapsed == {1, TicksPerMinute}

\* lines 270-275
my_cluster_preference == <<<<"dahu", "grenoble">>>>

\* the status responses of a run: non-2xx, no node, or the node dahu-1 with
\* no reservation
MainStatusResponses ==
    {r \in SelectStatusResponses :
        ~r.ok \/ (/\ DOMAIN r.nodes \subseteq {"dahu-1"}
                  /\ \A n \in DOMAIN r.nodes : r.nodes[n].reservations = <<>>)}

\* the job states a run is answered with
MainJobStates ==
    {<<"w", "a", "i", "t", "i", "n", "g">>,
     <<"L", "a", "u", "n", "c", "h", "i", "n", "g">>,
     <<"r", "u", "n", "n", "i", "n", "g">>,
     <<"t", "e", "r", "m", "i", "n", "a", "t", "e", "d">>}

MainJobResponses == {r \in JobResponses : ~r.ok \/ r.state \in MainJobStates}

\* the log texts of a run
MainLogTexts ==
    {text \in LogTexts : Len(text) = 0 \/ Len(text) >= Len(SuccessSentinel)}

\* sys.exit(code)
Exit(code) == [kind |-> "SystemExit", code |-> code]

\* an exception leaves main: the run has failed
Fails(e) ==
    /\ main_pc' = "failed"
    /\ main_result' = e

\* a request is issued and answered
Issue(call, ok) == requests' = Append(requests, [call |-> call, ok |-> ok])

\* line 252: the flags the assert of line 253 rejects
\* faulty variant: the assert left out
MutInvalidFlags(flags) == FALSE
InvalidFlags(flags) == flags.wait_job_setup_finished /\ ~flags.clear_log_files

\* line 284
\* faulty variant: only --wait-job-running makes the run wait
MutNeedsRunningWait(flags) == flags.wait_job_running
NeedsRunningWait(flags) ==
    flags.wait_job_running \/ flags.clear_subscript \/ flags.wait_job_setup_finished

InitMain ==
    /\ WindowIdle
    /\ target_dt = 0
    /\ SelectIdle
    /\ WaitIdle
    /\ remote_state = <<>>
    /\ log_stdout \in {NoFile, File(SuccessSentinel)}
    /\ job_current_stdout = <<>>
    /\ setup_pc = "idle"
    /\ setup_info = NoResponse
    /\ setup_reads = 0
    /\ setup_fetches = 0
    /\ setup_result = Pending
    /\ args \in Flags
    /\ main_pc = "start"
    /\ main_result = Pending
    /\ now \in MainStarts
    /\ log_stderr \in BOOLEAN
    /\ removed = {}
    /\ response_dict = Pending
    /\ subscript_removal = "none"
    /\ requests = <<>>

\* lines 252-253
MainCheckFlags ==
    /\ main_pc = "start"
    /\ IF InvalidFlags(args)
       THEN Fails(Raise("AssertionError"))
       ELSE /\ main_pc' = "clear_logs"
            /\ UNCHANGED main_result
    /\ UNCHANGED <<windowVars, target_dt, selectVars, waitVars, setupVars, args, now,
                   log_stderr, removed, response_dict, subscript_removal, requests>>

\* lines 259-266: os.remove of each log file, an OSError passed over
MainClearLogFiles ==
    /\ main_pc = "clear_logs"
    /\ main_pc' = "window"
    /\ IF args.clear_log_files
       THEN /\ log_stdout' = NoFile
            /\ log_stderr' = FALSE
            /\ removed' = removed \cup {f \in {"stdout", "stderr"} :
                                          \/ f = "stdout" /\ log_stdout.exists
                                          \/ f = "stderr" /\ log_stderr}
       ELSE UNCHANGED <<log_stdout, log_stderr, removed>>
    /\ UNCHANGED <<windowVars, target_dt, selectVars, waitVars, remote_state,
                   job_current_stdout, setup_pc, setup_info, setup_reads,
                   setup_fetches, setup_result, args, main_result, now,
                   response_dict, subscript_removal, requests>>

\* lines 268-275: end_of_reservation(datetime.now())
MainEndOfReservation ==
    /\ main_pc = "window"
    /\ start_dt' = now
    /\ window' = end_of_reservation(now, DefaultDeltaBeforeEnd)
    /\ IF window'.kind = "ok"
       THEN /\ target_dt' = window'.value
            /\ preferred_clusters' = my_cluster_preference
            /\ main_pc' = "select"
            /\ UNCHANGED main_result
       ELSE /\ Fails(window')
            /\ UNCHANGED <<target_dt, preferred_clusters>>
    /\ UNCHANGED <<delta_before_end, window_walltime, walltime, sel_index,
                   status_response, usable_nodes, usable_counts, selected, waitVars,
                   setupVars, args, now, log_stderr, removed, response_dict,
                   subscript_removal, requests>>

\* line 277: one cluster of select_cluster_first_fit asked about
MainSelectQueryCluster ==
    /\ main_pc = "select"
    /\ SelectQueryCluster
    /\ status_response' \in MainStatusResponses
    /\ Issue("status", status_response'.ok)
    /\ IF selected'.kind = "ok"
       THEN main_pc' = "reserve" /\ UNCHANGED main_result
       ELSE IF selected' = Pending
       THEN UNCHANGED <<main_pc, main_result>>
       ELSE Fails(selected')
    /\ UNCHANGED <<setupVars, args, now, log_stderr, removed, response_dict,
                   subscript_removal>>

\* line 277: select_cluster_first_fit raises
MainSelectExhausted ==
    /\ main_pc = "select"
    /\ SelectExhausted
    /\ Fails(selected')
    /\ UNCHANGED <<setupVars, args, now, log_stderr, removed, response_dict,
                   subscript_removal, requests>>

\* lines 278-282: reserve_job (lines 182-199): the walltime first, then the
\* POST
\* faulty variant: the POST made before the walltime is computed
MutMainReserveJob ==
    /\ main_pc = "reserve"
    /\ \E elapsed \in Elapsed : now' = now + elapsed
    /\ walltime' = oar_walltime(now', target_dt)
    /\ \E ok \in BOOLEAN :
        /\ Issue("submit", ok)
        /\ IF ~ok
           THEN /\ response_dict' = Raise("HTTPError")
                /\ Fails(Raise("HTTPError"))
           ELSE IF walltime'.kind # "ok"
           THEN /\ Fails(walltime')
                /\ UNCHANGED response_dict
           ELSE /\ response_dict' = Ok([uid |-> "1"])
                /\ main_pc' = "reserved"
                /\ UNCHANGED main_result
    /\ UNCHANGED <<start_dt, delta_before_end, window, window_walltime, target_dt,
                   selectVars, waitVars, setupVars, args, log_stderr, removed,
                   subscript_removal>>
MainReserveJob ==
    /\ main_pc = "reserve"
    /\ \E elapsed \in Elapsed : now' = now + elapsed
    /\ walltime' = oar_walltime(now', target_dt)
    /\ IF walltime'.kind # "ok"
       THEN /\ Fails(walltime')
            /\ UNCHANGED <<response_dict, requests>>
       ELSE \E ok \in BOOLEAN :
            /\ Issue("submit", ok)
            /\ IF ok
               THEN /\ response_dict' = Ok([uid |-> "1"])
                    /\ main_pc' = "reserved"
                    /\ UNCHANGED main_result
               ELSE /\ response_dict' = Raise("HTTPError")
                    /\ Fails(Raise("HTTPError"))
    /\ UNCHANGED <<start_dt, delta_before_end, window, window_walltime, target_dt,
                   selectVars, waitVars, setupVars, args, log_stderr, removed,
                   subscript_removal>>

\* lines 284-285: the call of wait_for_job_to_start, or no call
MainCallWaitForJob ==
    /\ main_pc = "reserved"
    /\ IF NeedsRunningWait(args)
       THEN /\ main_pc' = "wait_running"
            /\ wait_pc' = "fetch"
       ELSE /\ main_pc' = "subscript"
            /\ UNCHANGED wait_pc
    /\ UNCHANGED <<windowVars, target_dt, selectVars, sleep_duration, job_info, polls,
                   slept, wait_result, setupVars, args, main_result, now, log_stderr,
                   removed, response_dict, subscript_removal, requests>>

\* line 285: a poll of wait_for_job_to_start
MainWaitPoll ==
    /\ main_pc = "wait_running"
    /\ WaitPoll
    /\ job_info' \in MainJobResponses
    /\ Issue("job", job_info'.ok)
    /\ IF wait_pc' = "returned"
       THEN main_pc' = "subscript" /\ UNCHANGED main_result
       ELSE IF wait_pc' = "raised"
       THEN Fails(wait_result')
       ELSE UNCHANGED <<main_pc, main_result>>
    /\ UNCHANGED <<setupVars, args, now, log_stderr, removed, response_dict,
                   subscript_removal>>

\* line 285: a sleep of wait_for_job_to_start
MainWaitSleep ==
    /\ main_pc = "wait_running"
    /\ WaitSleep
    /\ UNCHANGED <<setupVars, mainVars>>

\* lines 291-293: except OSError: print(...), sys.exit(1)
\* faulty variant: the OSError passed over, as it is for the log files
MutSubscriptOSError ==
    /\ main_pc' = "setup"
    /\ UNCHANGED main_result
SubscriptOSError ==
    /\ main_pc' = "exited"
    /\ main_result' = Exit(1)

\* lines 287-293: os.remove(subscript_path), which succeeds or raises
\* OSError
MainClearSubscript ==
    /\ main_pc = "subscript"
    /\ IF args.clear_subscript
       THEN \E exists \in BOOLEAN :
            IF exists
            THEN /\ subscript_removal' = "removed"
                 /\ removed' = removed \cup {"subscript"}
                 /\ main_pc' = "setup"
                 /\ UNCHANGED main_result
            ELSE /\ subscript_removal' = "failed"
                 /\ SubscriptOSError
                 /\ UNCHANGED removed
       ELSE /\ main_pc' = "setup"
            /\ UNCHANGED <<subscript_removal, removed, main_result>>
    /\ UNCHANGED <<windowVars, target_dt, selectVars, waitVars, setupVars, args, now,
                   log_stderr, response_dict, requests>>

\* lines 295-296: the call of wait_for_setup_to_finish, or the end of main
MainCallWaitForSetup ==
    /\ main_pc = "setup"
    /\ IF args.wait_job_setup_finished
       THEN /\ main_pc' = "wait_setup"
            /\ setup_pc' = "read"
            /\ UNCHANGED main_result
       ELSE /\ main_pc' = "done"
            /\ main_result' = Ok("None")
            /\ UNCHANGED setup_pc
    /\ UNCHANGED <<windowVars, target_dt, selectVars, waitVars, remote_state, log_stdout,
                   job_current_stdout, setup_info, setup_reads, setup_fetches,
                   setup_result, args, now, log_stderr, removed, response_dict,
                   subscript_removal, requests>>

\* line 296: a poll of wait_for_setup_to_finish
MainSetupPoll ==
    /\ main_pc = "wait_setup"
    /\ SetupPoll
    /\ setup_info' \in MainJobResponses \cup {NoResponse}
    /\ IF setup_fetches' # setup_fetches
       THEN Issue("job", setup_info'.ok)
       ELSE UNCHANGED requests
    /\ IF setup_pc' = "returned"
       THEN main_pc' = "done" /\ main_result' = Ok("None")
       ELSE IF setup_pc' = "raised"
       THEN Fails(setup_result')
       ELSE UNCHANGED <<main_pc, main_result>>
    /\ UNCHANGED <<args, now, log_stderr, removed, response_dict, subscript_removal>>

\* line 296: a sleep of wait_for_setup_to_finish
MainSetupSleep ==
    /\ main_pc = "wait_setup"
    /\ SetupSleep
    /\ UNCHANGED mainVars

\* the job writes to its log while main waits for the setup
MainJobWritesLog ==
    /\ main_pc = "wait_setup"
    /\ JobWritesLog
    /\ log_stdout'.text \in MainLogTexts
    /\ UNCHANGED mainVars

NextMain ==
    \/ MainCheckFlags
    \/ MainClearLogFiles
    \/ MainEndOfReservation
    \/ MainSelectQueryCluster
    \/ MainSelectExhausted
    \/ MainReserveJob
    \/ MainCallWaitForJob
    \/ MainWaitPoll
    \/ MainWaitSleep
    \/ MainClearSubscript
    \/ MainCallWaitForSetup
    \/ MainSetupPoll
    \/ MainSetupSleep
    \/ MainJobWritesLog

SpecMain == InitMain /\ [][NextMain]_vars

\* ------------------------------------------------------------ claims C12-C17
\* the requests of one kind issued so far
Issued(call) == {i \in DOMAIN requests : requests[i].call = call}

WaitIsActive == wait_pc \in {"fetch", "sleep"}
SetupWaitIsActive == setup_pc \in {"read", "sleep"}

\* C12: in every run of main the stages come in one order. reserve_job is
\* entered and the reservation submitted only after the selection returned a
\* cluster, never after it failed; wait_for_job_to_start starts only after the
\* submission succeeded; the subscript is removed, or its removal tried, only
\* after wait_for_job_to_start returned; wait_for_setup_to_finish starts only
\* after wait_for_job_to_start returned; the requests go status queries, then
\* the submission, then job fetches; and the two polling loops are never
\* active together.
C12_StageOrder ==
    /\ (walltime # Pending \/ Issued("submit") # {}) =>
          /\ selected.kind = "ok"
          /\ \E i \in Issued("status") : requests[i].ok
    /\ wait_pc # "idle" => response_dict.kind = "ok"
    /\ subscript_removal # "none" => wait_pc = "returned"
    /\ setup_pc # "idle" => wait_pc = "returned"
    /\ \A i \in DOMAIN requests : \A j \in DOMAIN requests :
          i < j =>
             /\ requests[i].call = "submit" => requests[j].call = "job"
             /\ requests[i].call = "job" => requests[j].call = "job"
    /\ ~(WaitIsActive /\ SetupWaitIsActive)

\* a run through every stage, each loop having polled more than once
C12_Witness ==
    /\ main_pc = "done"
    /\ subscript_removal = "removed"
    /\ setup_result = Ok(TRUE)
    /\ polls > 1
    /\ setup_reads > 1

\* C13: with --wait-job-setup-finished and without --clear-log-files main
\* fails on its first statement with AssertionError, and nothing has been done:
\* no file removed, both log files as they were, no request issued, no
\* reservation, neither polling loop entered.
C13_FailsAtStartup ==
    (args.wait_job_setup_finished /\ ~args.clear_log_files) =>
        /\ main_pc \in {"start", "failed"}
        /\ main_pc = "failed" => main_result = Raise("AssertionError")
        /\ removed = {}
        /\ log_stdout \in {NoFile, File(SuccessSentinel)}
        /\ requests = <<>>
        /\ selected = Pending
        /\ response_dict = Pending
        /\ wait_pc = "idle"
        /\ setup_pc = "idle"

\* the run has failed, the log files of an earlier run still there
C13_Witness ==
    /\ args.wait_job_setup_finished
    /\ ~args.clear_log_files
    /\ main_result = Raise("AssertionError")
    /\ log_stdout.exists
    /\ log_stderr

RunHasEnded == main_pc \in {"done", "failed", "exited"}

\* C14 as stated: a run whose removal of the subscript failed, and which was
\* asked to wait for the setup, does not end without having entered
\* wait_for_setup_to_finish.
C14_AsStated ==
    (subscript_removal = "failed" /\ args.wait_job_setup_finished /\ RunHasEnded) =>
        setup_pc # "idle"

\* C14: when os.remove of the subscript raises OSError the error is caught,
\* and the run exits at once through sys.exit(1): no exception of the removal
\* leaves main, the exit status is 1, and wait_for_setup_to_finish is not
\* entered, requested or not.
C14_RemovalFailureExits ==
    subscript_removal = "failed" =>
        /\ main_pc = "exited"
        /\ main_result = Exit(1)
        /\ setup_pc = "idle"
        /\ wait_pc = "returned"

C14_Witness ==
    /\ subscript_removal = "failed"
    /\ args.wait_job_setup_finished
    /\ main_result = Exit(1)

\* C15: no request is made again. Once a request of a run (status query,
\* submission, job fetch of either loop) is answered non-2xx, it is the last
\* request of the run: the run has failed with HTTPError, and neither loop is
\* left sleeping or about to poll.
C15_NoRetry ==
    \A i \in DOMAIN requests :
        ~requests[i].ok =>
            /\ i = Len(requests)
            /\ main_pc = "failed"
            /\ main_result = Raise("HTTPError")
            /\ ~WaitIsActive
            /\ ~SetupWaitIsActive

\* a fetch of the setup wait failed after fetches that succeeded
C15_Witness ==
    /\ setup_result = Raise("HTTPError")
    /\ setup_fetches > 1
    /\ ~requests[Len(requests)].ok

InvalidArgument == {Raise("ValueError"), Raise("AssertionError")}

\* C16 as stated: a run that failed with ValueError or AssertionError has
\* issued no request.
C16_AsStated == main_result \in InvalidArgument => requests = <<>>

\* C16: a run that failed with AssertionError has issued no request. A run
\* that failed with ValueError failed in reserve_job, on a window end less than
\* one second after the now of the submission: it has issued the status
\* queries of the selection, the last of them answered 2xx, and no submission
\* and no job fetch.
C16_InvalidArgumentBeforeSubmission ==
    /\ main_result = Raise("AssertionError") => requests = <<>>
    /\ main_result = Raise("ValueError") =>
          /\ walltime = Raise("ValueError")
          /\ target_dt - now < TicksPerSec
          /\ selected.kind = "ok"
          /\ requests # <<>>
          /\ \A i \in DOMAIN requests : requests[i].call = "status"
          /\ requests[Len(requests)].ok
          /\ response_dict = Pending

\* the window ended at the instant main started
C16_Witness ==
    /\ main_result = Raise("ValueError")
    /\ target_dt = start_dt
    /\ Len(requests) = 1

\* C17 as stated: whenever wait_for_setup_to_finish has begun, the state on
\* which wait_for_job_to_start returned is running.
C17_AsStated ==
    setup_pc # "idle" =>
        /\ wait_result.kind = "ok"
        /\ SameIgnoringCase(wait_result.value.state, Running)

\* C17: whenever wait_for_setup_to_finish has begun, wait_for_job_to_start
\* has returned, on a state that is neither waiting nor launching under any
\* letter case: running, or a state of a job that has ended.
C17_StartedBeforeSetupWait ==
    setup_pc # "idle" =>
        /\ wait_pc = "returned"
        /\ wait_result.kind = "ok"
        /\ wait_result.value.ok
        /\ ~WaitingOrLaunching(wait_result.value.state)

\* the setup wait begun for a job seen terminated
C17_Witness ==
    /\ setup_pc # "idle"
    /\ wait_result.kind = "ok"
    /\ wait_result.value.state = <<"t", "e", "r", "m", "i", "n", "a", "t", "e", "d">>

\* ------------------------------------------- the polling loops left to run
\* the states of the job a loop is left to run with
LiveJobStates ==
    {<<"w", "a", "i", "t", "i", "n", "g">>,
     <<"L", "a", "u", "n", "c", "h", "i", "n", "g">>,
     <<"R", "u", "n", "n", "i", "n", "g">>,
     <<"h", "o", "l", "d">>}

\* the log texts a loop is left to run with
LiveLogTexts ==
    {text \in LogTexts : Len(text) <= Len(FailureSentinel)}

\* one of the two loops is called: wait_for_job_to_start for a job in any
\* state, or wait_for_setup_to_finish with the log of the job there
InitLive ==
    /\ WindowIdle
    /\ target_dt = SelectTarget
    /\ SelectIdle
    /\ MainIdle
    /\ sleep_duration = 5
    /\ job_info = NoResponse
    /\ polls = 0
    /\ slept = 0
    /\ wait_result = Pending
    /\ remote_state \in LiveJobStates
    /\ log_stdout \in {File(text) : text \in LiveLogTexts}
    /\ job_current_stdout = <<>>
    /\ setup_info = NoResponse
    /\ setup_reads = 0
    /\ setup_fetches = 0
    /\ setup_result = Pending
    /\ \/ wait_pc = "fetch" /\ setup_pc = "idle"
       \/ wait_pc = "idle" /\ setup_pc = "read"

\* lines 213-218, the job answering with its state or the request failing
LiveWaitPoll ==
    /\ WaitPoll
    /\ AnswersRemoteState(job_info')
    /\ UNCHANGED <<setupVars, mainVars>>

\* line 220
LiveWaitSleep == WaitSleep /\ UNCHANGED <<setupVars, mainVars>>

\* lines 212 and 224: while True keeps no count of its iterations; the
\* counts of the model start over
WaitRecount ==
    /\ wait_pc = "fetch"
    /\ polls = MaxPolls
    /\ polls' = 0
    /\ slept' = 0
    /\ UNCHANGED <<windowVars, target_dt, selectVars, sleep_duration, wait_pc, job_info,
                   wait_result, setupVars, mainVars>>

SetupRecount ==
    /\ setup_pc = "read"
    /\ setup_reads = MaxPolls
    /\ setup_reads' = 0
    /\ setup_fetches' = 0
    /\ UNCHANGED <<windowVars, target_dt, selectVars, waitVars, remote_state, log_stdout,
                   job_current_stdout, setup_pc, setup_info, setup_result, mainVars>>

\* the job writes to its log while a loop runs
LiveJobWrites ==
    /\ WaitIsActive \/ SetupWaitIsActive
    /\ JobWritesLog
    /\ log_stdout'.text \in LiveLogTexts
    /\ UNCHANGED mainVars

\* the job changes state while a loop runs
LiveJobChanges ==
    /\ WaitIsActive \/ SetupWaitIsActive
    /\ remote_state' \in LiveJobStates \ {remote_state}
    /\ UNCHANGED <<windowVars, target_dt, selectVars, waitVars, log_stdout,
                   job_current_stdout, setup_pc, setup_info, setup_reads,
                   setup_fetches, setup_result, mainVars>>

NextLive ==
    \/ LiveWaitPoll
    \/ LiveWaitSleep
    \/ WaitRecount
    \/ SetupPollOfJob
    \/ SetupSleeps
    \/ SetupRecount
    \/ LiveJobWrites
    \/ LiveJobChanges

\* the thread of the loop is scheduled, every sleep and every request
\* returns; the job is under no obligation
SpecLive ==
    /\ InitLive
    /\ [][NextLive]_vars
    /\ WF_vars(LiveWaitPoll)
    /\ WF_vars(LiveWaitSleep)
    /\ WF_vars(WaitRecount)
    /\ WF_vars(SetupPollOfJob)
    /\ WF_vars(SetupSleeps)
    /\ WF_vars(SetupRecount)

\* ------------------------------------------------------------------ claim C19
WaitHasEnded == wait_pc \in {"returned", "raised"}
SetupWaitHasEnded == setup_pc \in {"returned", "raised"}

JobWaits == WaitingOrLaunching(remote_state)
JobRuns == SameIgnoringCase(remote_state, Running)
LogHasSentinel == log_stdout.exists /\ ~NoSentinelIn(log_stdout.text)

\* wait_for_job_to_start called, and wait_for_setup_to_finish called
WaitCalled == wait_pc # "idle"
SetupWaitCalled == setup_pc # "idle"

\* C19: neither loop has a limit of polls or a timeout. While the job stays
\* waiting or launching, wait_for_job_to_start does not return, and it polls
\* and sleeps again and again unless a fetch fails; while the log holds no
\* sentinel and the job stays running, wait_for_setup_to_finish does not
\* return, and it polls and sleeps again and again unless a fetch fails. With
\* the loop's thread scheduled fairly, wait_for_job_to_start ends if the job
\* from some point on is neither waiting nor launching, by returning unless a
\* fetch fails; and wait_for_setup_to_finish ends if from some point on the
\* log holds a sentinel or the job is not running.
C19_UnboundedWaits ==
    /\ (WaitCalled /\ []JobWaits) =>
          /\ []~(wait_pc = "returned")
          /\ ([]<>(wait_pc = "sleep") \/ <>(wait_result = Raise("HTTPError")))
    /\ (SetupWaitCalled /\ [](JobRuns /\ ~LogHasSentinel)) =>
          /\ []~SetupWaitHasEnded \/ <>(setup_result = Raise("HTTPError"))
          /\ ([]<>(setup_pc = "sleep") \/ <>(setup_result = Raise("HTTPError")))
    /\ (WaitCalled /\ <>[]~JobWaits) =>
          <>(wait_pc = "returned" \/ wait_result = Raise("HTTPError"))
    /\ (SetupWaitCalled /\ (<>[]LogHasSentinel \/ <>[]~JobRuns)) =>
          <>SetupWaitHasEnded

\* the setup wait ended at a late poll, the job having left the running
\* state with no sentinel in the log
C19_Witness ==
    /\ setup_result = Raise("RuntimeError")
    /\ setup_reads = MaxPolls
    /\ setup_fetches = MaxPolls
    /\ ~JobRuns
    /\ ~LogHasSentinel

====
